---- MODULE Spec2Model ----
(***************************************************************************)
(* A model of pypots/forecasting/gpt4ts/model.py: the GPT4TS forecaster.   *)
(* The instance owns a network (self.model), an optimizer, the             *)
(* best-snapshot record of the base trainer and a handful of configuration *)
(* fields.  fit, predict and forecast are the public operations; the       *)
(* batch-assembly hooks and _organize_content_to_save are the hooks the    *)
(* base trainer calls.                                                     *)
(***************************************************************************)
EXTENDS Integers, Sequences, FiniteSets, TLC

(***************************************************************************)
(* Bounds of the model.                                                    *)
(***************************************************************************)
MaxN == 3          \* the longest test_set, in samples
MaxBatch == 2      \* the largest batch_size
MaxSteps == 2      \* optimizer steps an instance takes over its lifetime
MaxArity == 6      \* the longest raw batch tuple handed to an assembly hook
MaxParam == 1      \* the largest value of a parameter tensor

ParamValues == 0..MaxParam    \* a parameter tensor's value
FieldValues == {0, 1}         \* a field of a raw batch tuple, as the hooks see it

(***************************************************************************)
(* Python's None and an optional value: <<>> is None, <<v>> is the value v.*)
(***************************************************************************)
NoneVal == << >>
Some(v) == << v >>
IsNone(o) == Len(o) = 0
Get(o) == o[1]

(***************************************************************************)
(* Strings.  `s in k` of Python is a substring test.                       *)
(***************************************************************************)
HasSubstr(k, s) ==
    \E i \in 1..(Len(k) - Len(s) + 1) : SubSeq(k, i, i + Len(s) - 1) = s

(***************************************************************************)
(* The inner network _GPT4TS: the keys of its state mapping.  The GPT2     *)
(* backbone's entries carry "gpt2" in their key; the MLP of GPT2 is tuned  *)
(* when train_gpt_mlp is set, the rest of the backbone is frozen.          *)
(***************************************************************************)
InnerKeys == {"backbone.gpt2.h.0.attn", "backbone.gpt2.h.0.mlp", "output_projection"}

Pretrained == [k \in {k0 \in InnerKeys : HasSubstr(k0, "gpt2")} |-> 1]

Trainable(k, flag) ==
    \/ ~HasSubstr(k, "gpt2")
    \/ flag /\ HasSubstr(k, "mlp")

ModulePrefix == "module."

Devices ==
    { [is_list |-> FALSE, ids |-> <<"cpu">>],
      [is_list |-> TRUE, ids |-> <<"cuda:0", "cuda:1">>] }

SavingStrategies == {"None", "best", "better", "all"}

PypotsVersion == "0.x"

VARIABLES
    model_params,           \* self.model: the inner network's state mapping
    model_training,         \* self.model.training: TRUE in train mode, FALSE in eval mode
    optimizer_steps,        \* self.optimizer: the steps it has taken
    best_model_dict,        \* self.best_model_dict: None or the best snapshot
    batch_size,             \* configuration fields
    device,
    saving_path,
    model_saving_strategy,
    train_gpt_mlp,
    saved,                  \* the checkpoint file at saving_path: None or its content
    pc,                     \* where the running fit call is: idle, enter_train,
                            \* train, restore, save
    ret                     \* the latest call: its operation, argument and outcome

config == <<batch_size, device, saving_path, model_saving_strategy, train_gpt_mlp>>

vars == <<model_params, model_training, optimizer_steps, best_model_dict,
          batch_size, device, saving_path, model_saving_strategy, train_gpt_mlp,
          saved, pc, ret>>

(***************************************************************************)
(* The instance, as the methods see it.                                    *)
(***************************************************************************)
Self ==
    [ model_params |-> model_params,
      model_training |-> model_training,
      optimizer_steps |-> optimizer_steps,
      best_model_dict |-> best_model_dict,
      batch_size |-> batch_size,
      device |-> device,
      saving_path |-> saving_path,
      model_saving_strategy |-> model_saving_strategy,
      train_gpt_mlp |-> train_gpt_mlp ]

SetSelf(s) ==
    /\ model_params' = s.model_params
    /\ model_training' = s.model_training
    /\ optimizer_steps' = s.optimizer_steps
    /\ best_model_dict' = s.best_model_dict
    /\ batch_size' = s.batch_size
    /\ device' = s.device
    /\ saving_path' = s.saving_path
    /\ model_saving_strategy' = s.model_saving_strategy
    /\ train_gpt_mlp' = s.train_gpt_mlp

(***************************************************************************)
(* State mappings.  With a device list the network is wrapped for parallel *)
(* training: the wrapper's state mapping prefixes every key with           *)
(* "module.", the wrapped module's own mapping does not.                   *)
(***************************************************************************)
StripPrefix(k) == SubSeq(k, Len(ModulePrefix) + 1, Len(k))

module_state_dict(self) == self.model_params

state_dict(self) ==
    IF self.device.is_list
    THEN [k \in {ModulePrefix \o k0 : k0 \in InnerKeys} |-> self.model_params[StripPrefix(k)]]
    ELSE self.model_params

load_state_dict(self, sd) ==
    [self EXCEPT !.model_params =
        [k0 \in InnerKeys |->
            IF self.device.is_list THEN sd[ModulePrefix \o k0] ELSE sd[k0]]]

(***************************************************************************)
(* _organize_content_to_save: the content of a checkpoint.                 *)
(***************************************************************************)
organize_content_to_save_no_unwrap(self) ==
    LET model_state_dict == state_dict(self)
        kept == {k \in DOMAIN model_state_dict : ~HasSubstr(k, "gpt2")}
    IN  [ model_state_dict |-> [k \in kept |-> model_state_dict[k]],
          pypots_version |-> PypotsVersion ]

organize_content_to_save(self) ==
    LET model_state_dict ==
            IF self.device.is_list
            THEN module_state_dict(self)
            ELSE state_dict(self)
        kept == {k \in DOMAIN model_state_dict : ~HasSubstr(k, "gpt2")}
    IN  [ model_state_dict |-> [k \in kept |-> model_state_dict[k]],
          pypots_version |-> PypotsVersion ]

(***************************************************************************)
(* The outcome of a call: a value, or the error it raised.                 *)
(***************************************************************************)
Ok(v) == [error |-> "None", value |-> Some(v)]
OkNone == [error |-> "None", value |-> NoneVal]
Raise(e) == [error |-> e, value |-> NoneVal]

(***************************************************************************)
(* The batch-assembly hooks.  Moving a batch to the device changes no      *)
(* value; unpacking a tuple of the wrong arity raises ValueError.          *)
(***************************************************************************)
send_data_to_given_device(self, data) == data

assemble_input_for_training_swapped(self, data) ==
    LET d == send_data_to_given_device(self, data)
    IN  IF Len(d) # 5
        THEN Raise("ValueError")
        ELSE Ok([ X |-> d[2],
                  missing_mask |-> d[3],
                  X_pred |-> d[5],
                  X_pred_missing_mask |-> d[4] ])

assemble_input_for_training(self, data) ==
    LET d == send_data_to_given_device(self, data)
    IN  IF Len(d) # 5
        THEN Raise("ValueError")
        ELSE Ok([ X |-> d[2],
                  missing_mask |-> d[3],
                  X_pred |-> d[4],
                  X_pred_missing_mask |-> d[5] ])

assemble_input_for_validating(self, data) == assemble_input_for_training(self, data)

assemble_input_for_testing(self, data) ==
    LET d == send_data_to_given_device(self, data)
    IN  IF Len(d) # 3
        THEN Raise("ValueError")
        ELSE Ok([ X |-> d[2],
                  missing_mask |-> d[3] ])

(***************************************************************************)
(* The inference dataset and its loader.  A test_set is a mapping with the *)
(* key X, holding N samples that differ from one another (the value 0      *)
(* stands for a missing one); sample i of the dataset is the tuple         *)
(* (i, X[i], mask of X[i]).                                                *)
(* The loader cuts the dataset, in order, into batches of batch_size       *)
(* samples, the last one possibly shorter, and collates each batch         *)
(* field by field.                                                         *)
(***************************************************************************)
TestSets ==
    { [X |-> [i \in 1..n |-> i - 1]] : n \in 1..MaxN }

MissingMask(x) == IF x = 0 THEN 0 ELSE 1

DatasetForGPT4TS(test_set) ==
    [i \in 1..Len(test_set.X) |-> << i - 1, test_set.X[i], MissingMask(test_set.X[i]) >>]

Collate(samples) ==
    [f \in 1..Len(samples[1]) |-> [j \in 1..Len(samples) |-> samples[j][f]]]

Min(a, b) == IF a < b THEN a ELSE b

RECURSIVE DataLoaderDropLast(_, _)
DataLoaderDropLast(dataset, bs) ==
    IF Len(dataset) < bs
    THEN << >>
    ELSE << Collate(SubSeq(dataset, 1, bs)) >>
            \o DataLoaderDropLast(SubSeq(dataset, bs + 1, Len(dataset)), bs)

RECURSIVE DataLoader(_, _)
DataLoader(dataset, bs) ==
    IF Len(dataset) = 0
    THEN << >>
    ELSE << Collate(SubSeq(dataset, 1, Min(bs, Len(dataset)))) >>
            \o DataLoader(SubSeq(dataset, Min(bs, Len(dataset)) + 1, Len(dataset)), bs)

(***************************************************************************)
(* The forward pass of the inner network on an inference batch: one        *)
(* forecast per sample, a function of the sample and of every parameter.   *)
(* The output depends on the mode: dropout acts in train mode only.        *)
(***************************************************************************)
RECURSIVE SumOver(_, _)
SumOver(f, ks) ==
    IF ks = {}
    THEN 0
    ELSE LET k == CHOOSE k0 \in ks : TRUE
         IN  f[k] + SumOver(f, ks \ {k})

model_forward(self, inputs) ==
    LET w == SumOver(self.model_params, DOMAIN self.model_params)
    IN  [ forecasting_data |->
            [j \in 1..Len(inputs.X) |->
                [ x |-> inputs.X[j] * inputs.missing_mask[j],
                  w |-> w,
                  dropout |-> self.model_training ]] ]

(***************************************************************************)
(* predict: eval mode, then the loop over the loader under no_grad, then   *)
(* the concatenation of the collected per-batch outputs.                   *)
(***************************************************************************)
collector_prepend(forecasting_collector, forecasting_data) ==
    << forecasting_data >> \o forecasting_collector

collector_append(forecasting_collector, forecasting_data) ==
    Append(forecasting_collector, forecasting_data)

RECURSIVE torch_cat(_)
torch_cat(tensors) ==
    IF Len(tensors) = 0 THEN << >> ELSE Head(tensors) \o torch_cat(Tail(tensors))

(* .cpu().detach().numpy(): the tensor's rows, as a plain array *)
numpy(tensor) == [ndarray |-> tensor]

RECURSIVE forward_loop(_, _, _, _)
forward_loop(self, test_loader, idx, forecasting_collector) ==
    IF idx > Len(test_loader)
    THEN Ok(forecasting_collector)
    ELSE LET inputs == assemble_input_for_testing(self, test_loader[idx])
         IN  IF inputs.error # "None"
             THEN inputs
             ELSE forward_loop(self, test_loader, idx + 1,
                      collector_append(forecasting_collector,
                          model_forward(self, Get(inputs.value)).forecasting_data))

predict_from(self, test_set) ==
    LET test_loader == DataLoader(DatasetForGPT4TS(test_set), self.batch_size)
        looped == forward_loop(self, test_loader, 1, << >>)
    IN  IF looped.error # "None"
        THEN [self |-> self, out |-> looped]
        ELSE [self |-> self,
              out |-> Ok([forecasting |-> numpy(torch_cat(Get(looped.value)))])]

predict_with_grad(self, test_set) ==
    LET r == predict_from([self EXCEPT !.model_training = FALSE], test_set)
    IN  [r EXCEPT !.self.model_params =
            [k \in InnerKeys |->
                IF Trainable(k, self.train_gpt_mlp)
                THEN CHOOSE v \in ParamValues : v # self.model_params[k]
                ELSE self.model_params[k]],
                  !.self.optimizer_steps = self.optimizer_steps + 1]

predict_requires_fit(self, test_set) ==
    IF IsNone(self.best_model_dict)
    THEN [self |-> self, out |-> Raise("RuntimeError")]
    ELSE predict_from([self EXCEPT !.model_training = FALSE], test_set)

predict(self, test_set) ==
    predict_from([self EXCEPT !.model_training = FALSE], test_set)

(***************************************************************************)
(* forecast: predict, and the "forecasting" entry of its result.           *)
(***************************************************************************)
forecast_own_loop(self, test_set) ==
    LET r == predict_from(self, test_set)
    IN  IF r.out.error # "None"
        THEN r
        ELSE [self |-> r.self, out |-> Ok(Get(r.out.value).forecasting)]

forecast(self, test_set) ==
    LET result_dict == predict(self, test_set)
    IN  IF result_dict.out.error # "None"
        THEN result_dict
        ELSE [self |-> result_dict.self,
              out |-> Ok(Get(result_dict.out.value).forecasting)]

(***************************************************************************)
(* fit: the validation of val_set, the base trainer's training loop, the   *)
(* restore of the best snapshot and the save.                              *)
(***************************************************************************)
ValSets ==
    { [given |-> FALSE, keys |-> {}],
      [given |-> TRUE, keys |-> {"X"}],
      [given |-> TRUE, keys |-> {"X", "X_pred"}] }

key_in_data_set(key, data_set) == key \in data_set.keys

val_set_rejected_wrong_key(val_set) ==
    /\ val_set.given
    /\ ~key_in_data_set("X", val_set)

val_set_rejected(val_set) ==
    /\ val_set.given
    /\ ~key_in_data_set("X_pred", val_set)

confirm_saving_any(self) == self.model_saving_strategy # "None"

confirm_saving(self) == self.model_saving_strategy = "best"

auto_save_model_if_necessary(self, confirm, disk) ==
    IF ~IsNone(self.saving_path) /\ self.model_saving_strategy # "None" /\ confirm
    THEN Some(organize_content_to_save(self))
    ELSE disk

(***************************************************************************)
(* The state after construction: the backbone holds its pretrained         *)
(* values, the other parameters are randomly initialised, the network is   *)
(* in train mode, the optimizer has taken no step, nothing is recorded.    *)
(***************************************************************************)
Init ==
    /\ model_params \in
         { p \in [InnerKeys -> ParamValues] :
             \A k \in DOMAIN Pretrained : p[k] = Pretrained[k] }
    /\ model_training = TRUE
    /\ optimizer_steps = 0
    /\ best_model_dict = NoneVal
    /\ batch_size \in 1..MaxBatch
    /\ device \in Devices
    /\ saving_path \in {NoneVal, Some("runs")}
    /\ model_saving_strategy \in SavingStrategies
    /\ train_gpt_mlp \in BOOLEAN
    /\ saved = NoneVal
    /\ pc = "idle"
    /\ ret = [op |-> "init", arg |-> NoneVal, done |-> TRUE, out |-> OkNone]

(***************************************************************************)
(* The record of a fit call: its val_set, whether it has returned, its     *)
(* outcome, the steps it has taken in order, and the parameters the        *)
(* training loop left (None until the restore replaces them).              *)
(***************************************************************************)
FitCall(val_set, done, out, steps) ==
    [op |-> "fit", arg |-> val_set, done |-> done, out |-> out,
     steps |-> steps, trained |-> NoneVal]

(***************************************************************************)
(* fit, up to the call of the training loop: a val_set without X_pred      *)
(* raises ValueError; otherwise the training loop is entered.              *)
(***************************************************************************)
FitRejected(val_set) ==
    /\ pc = "idle"
    /\ val_set_rejected(val_set)
    /\ ret' = FitCall(val_set, TRUE, Raise("ValueError"), << >>)
    /\ UNCHANGED <<model_params, model_training, optimizer_steps, best_model_dict,
                   config, saved, pc>>

FitTrain(val_set) ==
    /\ pc = "idle"
    /\ ~val_set_rejected(val_set)
    /\ optimizer_steps < MaxSteps
    /\ pc' = "enter_train"
    /\ ret' = FitCall(val_set, FALSE, OkNone, << "train" >>)
    /\ UNCHANGED <<model_params, model_training, optimizer_steps, best_model_dict,
                   config, saved>>

(* The base trainer's loop starts with no best snapshot recorded. *)
TrainBegin ==
    /\ pc = "enter_train"
    /\ pc' = "train"
    /\ best_model_dict' = NoneVal
    /\ UNCHANGED <<model_params, model_training, optimizer_steps, config, saved, ret>>

(***************************************************************************)
(* One epoch of the base trainer's loop: the optimizer steps the trainable *)
(* parameters; the first epoch, and every later epoch whose loss is below  *)
(* the best one, is snapshotted; "better" saves on an improvement, "all"   *)
(* saves after every epoch.  With a validation loader the epoch ends in    *)
(* eval mode.                                                              *)
(***************************************************************************)
TrainEpoch ==
    /\ pc = "train"
    /\ optimizer_steps < MaxSteps
    /\ \E new \in [InnerKeys -> ParamValues], improved \in BOOLEAN :
        LET stepped == [Self EXCEPT !.model_params = new,
                                    !.model_training = ~ret.arg.given,
                                    !.optimizer_steps = optimizer_steps + 1]
            after == IF improved
                     THEN [stepped EXCEPT !.best_model_dict = Some(state_dict(stepped))]
                     ELSE stepped
        IN  /\ IsNone(best_model_dict) => improved
            /\ \A k \in InnerKeys :
                 ~Trainable(k, train_gpt_mlp) => new[k] = model_params[k]
            /\ SetSelf(after)
            /\ saved' = auto_save_model_if_necessary(after,
                            \/ model_saving_strategy = "all"
                            \/ model_saving_strategy = "better" /\ improved,
                            saved)
    /\ UNCHANGED <<pc, ret>>

(* The loop ends, by the epoch budget or by early stopping. *)
TrainReturn ==
    /\ pc = "train"
    /\ ~IsNone(best_model_dict)
    /\ pc' = "restore"
    /\ UNCHANGED <<model_params, model_training, optimizer_steps, best_model_dict,
                   config, saved, ret>>

(* A failure inside the loop propagates out of fit. *)
TrainRaise ==
    /\ pc = "train"
    /\ pc' = "idle"
    /\ ret' = [ret EXCEPT !.done = TRUE, !.out = Raise("RuntimeError")]
    /\ UNCHANGED <<model_params, model_training, optimizer_steps, best_model_dict,
                   config, saved>>

(* self.model.load_state_dict(self.best_model_dict) *)
FitRestore ==
    /\ pc = "restore"
    /\ SetSelf(load_state_dict(Self, Get(best_model_dict)))
    /\ ret' = [ret EXCEPT !.steps = Append(@, "restore"), !.trained = Some(model_params)]
    /\ pc' = "save"
    /\ UNCHANGED saved

(* self._auto_save_model_if_necessary(confirm_saving=...), and fit returns *)
FitSave ==
    /\ pc = "save"
    /\ saved' = auto_save_model_if_necessary(Self, confirm_saving(Self), saved)
    /\ ret' = [ret EXCEPT !.steps = Append(@, IF confirm_saving(Self) THEN "save" ELSE "no_save"),
                          !.done = TRUE]
    /\ pc' = "idle"
    /\ UNCHANGED <<model_params, model_training, optimizer_steps, best_model_dict, config>>

Predict(test_set) ==
    /\ pc = "idle"
    /\ LET r == predict(Self, test_set)
       IN  /\ SetSelf(r.self)
           /\ ret' = [op |-> "predict", arg |-> test_set, done |-> TRUE, out |-> r.out]
    /\ UNCHANGED <<saved, pc>>

Forecast(test_set) ==
    /\ pc = "idle"
    /\ LET r == forecast(Self, test_set)
       IN  /\ SetSelf(r.self)
           /\ ret' = [op |-> "forecast", arg |-> test_set, done |-> TRUE, out |-> r.out]
    /\ UNCHANGED <<saved, pc>>

Next ==
    \/ \E val_set \in ValSets : FitRejected(val_set)
    \/ \E val_set \in ValSets : FitTrain(val_set)
    \/ TrainBegin
    \/ TrainEpoch
    \/ TrainReturn
    \/ TrainRaise
    \/ FitRestore
    \/ FitSave
    \/ \E test_set \in TestSets : Predict(test_set)
    \/ \E test_set \in TestSets : Forecast(test_set)

Spec == Init /\ [][Next]_vars

(***************************************************************************)
(* The assembly hooks on their own: each is applied to raw batch tuples of *)
(* every arity up to MaxArity, on an instance of either device kind.       *)
(***************************************************************************)
InitHooks ==
    /\ Init
    /\ batch_size = 1
    /\ IsNone(saving_path)
    /\ model_saving_strategy = "best"
    /\ ~train_gpt_mlp

RawBatches == UNION { [1..n -> FieldValues] : n \in 0..MaxArity }

HookCall(name, data, out) ==
    [op |-> name, arg |-> data, done |-> TRUE, out |-> out]

AssembleTraining(data) ==
    /\ pc = "idle"
    /\ ret' = HookCall("_assemble_input_for_training", data,
                       assemble_input_for_training(Self, data))
    /\ UNCHANGED <<model_params, model_training, optimizer_steps, best_model_dict,
                   config, saved, pc>>

AssembleValidating(data) ==
    /\ pc = "idle"
    /\ ret' = HookCall("_assemble_input_for_validating", data,
                       assemble_input_for_validating(Self, data))
    /\ UNCHANGED <<model_params, model_training, optimizer_steps, best_model_dict,
                   config, saved, pc>>

AssembleTesting(data) ==
    /\ pc = "idle"
    /\ ret' = HookCall("_assemble_input_for_testing", data,
                       assemble_input_for_testing(Self, data))
    /\ UNCHANGED <<model_params, model_training, optimizer_steps, best_model_dict,
                   config, saved, pc>>

NextHooks ==
    \/ \E data \in RawBatches : AssembleTraining(data)
    \/ \E data \in RawBatches : AssembleValidating(data)
    \/ \E data \in RawBatches : AssembleTesting(data)

SpecHooks == InitHooks /\ [][NextHooks]_vars

(***************************************************************************)
(* Loading a checkpoint into a freshly constructed instance of the same    *)
(* configuration: the backbone is reconstructed from the pretrained        *)
(* release, the entries of the checkpoint replace the others.              *)
(***************************************************************************)
FreshInstances(self) ==
    { [self EXCEPT !.model_params = p,
                   !.model_training = TRUE,
                   !.optimizer_steps = 0,
                   !.best_model_dict = NoneVal] :
        p \in { q \in [InnerKeys -> ParamValues] :
                  \A k \in DOMAIN Pretrained : q[k] = Pretrained[k] } }

load_checkpoint(fresh, content) ==
    [fresh EXCEPT !.model_params =
        [k \in InnerKeys |->
            IF k \in DOMAIN content.model_state_dict
            THEN content.model_state_dict[k]
            ELSE fresh.model_params[k]]]

(***************************************************************************)
(*                              The claims                                 *)
(***************************************************************************)
FitReturned == ret.op = "fit" /\ ret.done /\ ret.out.error = "None"

LacksXPred(val_set) == val_set.given /\ "X_pred" \notin val_set.keys

\* C1: a fit call whose val_set is given and lacks the key "X_pred" raises
\* ValueError before the training loop is entered: the call takes no step, no
\* optimizer step occurs, and the network's parameters and the best-snapshot
\* record are after the call what they were before it.
C1_FitRejectsValSetBeforeTraining ==
    [][ (ret'.op = "fit" /\ LacksXPred(ret'.arg)) =>
            /\ ret'.done
            /\ ret'.out = Raise("ValueError")
            /\ ret'.steps = << >>
            /\ pc = "idle" /\ pc' = "idle"
            /\ optimizer_steps' = optimizer_steps
            /\ model_params' = model_params
            /\ best_model_dict' = best_model_dict ]_vars

C1_Witness ==
    /\ ret.op = "fit"
    /\ LacksXPred(ret.arg)
    /\ ret.out.error = "ValueError"
    /\ ~IsNone(best_model_dict)
    /\ optimizer_steps > 0

\* C2: predict on a test_set of N >= 1 samples returns a "forecasting" array
\* of exactly N rows, for every batch_size, also when the last batch is partial.
C2_PredictReturnsNRows ==
    ret.op = "predict" =>
        /\ ret.out.error = "None"
        /\ Len(Get(ret.out.value).forecasting.ndarray) = Len(ret.arg.X)

C2_Witness ==
    /\ ret.op = "predict"
    /\ Len(ret.arg.X) > batch_size
    /\ Len(ret.arg.X) % batch_size # 0
    /\ Len(Get(ret.out.value).forecasting.ndarray) = Len(ret.arg.X)

\* C3: after a fit that completes with saving strategy "best" (and a saving
\* path), loading the saved checkpoint into a freshly constructed instance
\* gives the same predict result as the original instance, on every test_set
\* and in every configuration.
C3_CheckpointRoundTrip ==
    (FitReturned /\ model_saving_strategy = "best" /\ ~IsNone(saving_path)) =>
        /\ ~IsNone(saved)
        /\ \A fresh \in FreshInstances(Self), test_set \in TestSets :
              predict(load_checkpoint(fresh, Get(saved)), test_set).out
                  = predict(Self, test_set).out

\* C4: in every state, on a single device or a device list, the mapping
\* _organize_content_to_save returns carries a "pypots_version" tag, and its
\* "model_state_dict" holds no key with the substring "gpt2" and holds every
\* key of the network's state mapping without that substring, value unchanged.
C4_SavedContentExcludesBackbone ==
    LET content == organize_content_to_save(Self)
        kept == content.model_state_dict
    IN  /\ DOMAIN content = {"model_state_dict", "pypots_version"}
        /\ content.pypots_version = PypotsVersion
        /\ \A k \in DOMAIN kept : ~HasSubstr(k, "gpt2")
        /\ \A k \in DOMAIN model_params :
              ~HasSubstr(k, "gpt2") => (k \in DOMAIN kept /\ kept[k] = model_params[k])
        /\ DOMAIN kept \subseteq DOMAIN model_params

C4_Witness ==
    /\ device.is_list
    /\ optimizer_steps > 0
    /\ ~IsNone(saved)
    /\ Get(saved) = organize_content_to_save(Self)
    /\ \E k \in DOMAIN model_params : HasSubstr(k, "gpt2")
    /\ \E k \in DOMAIN model_params : ~HasSubstr(k, "gpt2")

\* C5: a fit call that completes has taken its steps in the order train,
\* restore, save: the network holds the best snapshot when the save step is
\* reached and when fit returns, and the save is requested exactly when the
\* saving strategy is "best".
C5_FitOrderTrainRestoreSave ==
    /\ pc = "save" =>
          /\ ret.steps = << "train", "restore" >>
          /\ state_dict(Self) = Get(best_model_dict)
    /\ FitReturned =>
          /\ Len(ret.steps) = 3
          /\ SubSeq(ret.steps, 1, 2) = << "train", "restore" >>
          /\ ret.steps[3] = "save" <=> model_saving_strategy = "best"
          /\ ret.steps[3] \in {"save", "no_save"}
          /\ state_dict(Self) = Get(best_model_dict)

C5_Witness ==
    /\ FitReturned
    /\ model_saving_strategy = "best"
    /\ ret.steps = << "train", "restore", "save" >>
    /\ Get(ret.trained) # model_params

\* C6: forecast returns the value under "forecasting" of what predict returns
\* in the same state, and leaves the state that one predict call leaves.
C6_ForecastIsPredictForecasting ==
    [][ ret'.op = "forecast" =>
            LET r == predict(Self, ret'.arg)
            IN  /\ ret'.out.error = "None"
                /\ Get(ret'.out.value) = Get(r.out.value).forecasting
                /\ Self' = r.self
                /\ saved' = saved
                /\ pc' = pc ]_vars

C6_Witness ==
    /\ ret.op = "forecast"
    /\ ret.out.error = "None"
    /\ Len(ret.arg.X) > batch_size
    /\ optimizer_steps > 0

\* C7: a predict call, anywhere in a sequence of fit, predict and forecast
\* calls, leaves the network's parameters, the optimizer state, the
\* best-snapshot record and the configuration fields as they were.
C7_PredictChangesNoParameter ==
    [][ ret'.op = "predict" =>
            /\ model_params' = model_params
            /\ optimizer_steps' = optimizer_steps
            /\ best_model_dict' = best_model_dict
            /\ config' = config ]_vars

C7_Witness ==
    /\ ret.op = "predict"
    /\ ret.out.error = "None"
    /\ ~IsNone(best_model_dict)
    /\ optimizer_steps > 0

\* C8: the training (and validation) hook turns a 5-field tuple into the
\* mapping with exactly the keys X, missing_mask, X_pred, X_pred_missing_mask
\* bound to positions 2..5; the inference hook turns a 3-field tuple into
\* exactly {X, missing_mask}; on any other arity the hook raises ValueError
\* and produces no mapping.
C8_AssemblyHooks ==
    /\ ret.op \in {"_assemble_input_for_training", "_assemble_input_for_validating"} =>
          IF Len(ret.arg) = 5
          THEN /\ ret.out.error = "None"
               /\ Get(ret.out.value) =
                      [ X |-> ret.arg[2],
                        missing_mask |-> ret.arg[3],
                        X_pred |-> ret.arg[4],
                        X_pred_missing_mask |-> ret.arg[5] ]
               /\ DOMAIN Get(ret.out.value) =
                      {"X", "missing_mask", "X_pred", "X_pred_missing_mask"}
          ELSE /\ ret.out.error = "ValueError"
               /\ IsNone(ret.out.value)
    /\ ret.op = "_assemble_input_for_testing" =>
          IF Len(ret.arg) = 3
          THEN /\ ret.out.error = "None"
               /\ Get(ret.out.value) = [X |-> ret.arg[2], missing_mask |-> ret.arg[3]]
               /\ DOMAIN Get(ret.out.value) = {"X", "missing_mask"}
          ELSE /\ ret.out.error = "ValueError"
               /\ IsNone(ret.out.value)

C8_Witness ==
    /\ ret.op = "_assemble_input_for_validating"
    /\ Len(ret.arg) = 5
    /\ ret.arg[4] # ret.arg[5]
    /\ ret.arg[1] # ret.arg[2]
    /\ ret.out.error = "None"

\* C9: predict and forecast raise no error in any state, a freshly
\* constructed instance that was never trained included: they return a
\* forecast of the test_set's samples.
C9_PredictNeedsNoFit ==
    ret.op \in {"predict", "forecast"} =>
        /\ ret.done
        /\ ret.out.error = "None"
        /\ ~IsNone(ret.out.value)

C9_Witness ==
    /\ ret.op = "forecast"
    /\ ret.out.error = "None"
    /\ optimizer_steps = 0
    /\ IsNone(best_model_dict)
    /\ IsNone(saved)
    /\ Len(Get(ret.out.value).ndarray) = Len(ret.arg.X)

\* C10: row i of the "forecasting" array predict returns is the network's
\* forecast for the i-th sample of test_set, for every i and every batch_size.
C10_PredictKeepsSampleOrder ==
    ret.op = "predict" =>
        LET rows == Get(ret.out.value).forecasting.ndarray
            x == ret.arg.X
        IN  /\ Len(rows) = Len(x)
            /\ \A i \in 1..Len(x) :
                  << rows[i] >> =
                      model_forward(Self, [ X |-> << x[i] >>,
                                            missing_mask |-> << MissingMask(x[i]) >> ]
                                   ).forecasting_data

C10_Witness ==
    /\ ret.op = "predict"
    /\ Len(ret.arg.X) > 2 * batch_size
    /\ \A i, j \in 1..Len(ret.arg.X) : i # j => ret.arg.X[i] # ret.arg.X[j]

====
